---- MODULE Spec2Model ----
(***************************************************************************)
(* Orchestration core of the browser chess application: main.js (the       *)
(* session state machine, premove queue, clocks and AI think cycles) and   *)
(* src/ai/ChessAI.js (the engine wrapper and its time-budget calculator).  *)
(*                                                                         *)
(* The rules engine (chess.js) is an external collaborator.  It is         *)
(* modelled at its interface by a pawn game on a board of two files and    *)
(* three ranks with one pawn a side: pawns step forward, capture           *)
(* diagonally and promote on the far rank (to a queen or a knight); a      *)
(* promotion mates, a side to move without a legal move is stalemated.  An *)
(* illegal move request yields a falsy result.  Times are in the units the *)
(* code uses (seconds for the clocks of main.js, milliseconds in           *)
(* ChessAI.js).                                                            *)
(*                                                                         *)
(* The event loop is modelled as it runs: every handler, timer callback    *)
(* and worker message is one atomic step (a macrotask), and the promise    *)
(* continuations it makes runnable are queued in `microtasks` and run, in  *)
(* order, before the next macrotask.                                       *)
(***************************************************************************)
EXTENDS Integers, Sequences, FiniteSets, TLC

\* ------------------------------------------------------------------------
\* Bounds of the model
\* ------------------------------------------------------------------------
\* makeAIMove invocations suspended at the same time
MaxCycles == 2
\* setTimeout(makeAIMove, ...) callbacks pending at the same time
MaxTimeouts == 1
\* uses of the new-game button in a session
MaxResets == 1
\* base time and increment, in seconds, of the timed control on offer
MaxBaseSeconds == 1
MaxIncrement == 0
\* the increments, in seconds, of the controls of SpecClock
MaxClockIncrement == 1
\* the base time, in seconds, of the control of SpecBudget
MaxBudgetSeconds == 3
\* getPersonality calls in a behaviour of SpecPersonality
MaxLookups == 2
\* getMove / getQuickMove calls on the instance of FairChessAI
MaxRequests == 2
\* logger calls in a behaviour of SpecLogger (the buffer holds MAX_MESSAGES)
MaxLogCalls == 103
\* the levels of the calls repeat with this period
LogPeriod == 2
\* the calculator is called with every remaining time from 1 ms up to
\* MaxTimeLeftMs (and with the samples of TimeSamples), with the move numbers
\* 1 + 13 * k for k up to MaxMoveK and the increments 1000 * k ms for k up
\* to MaxIncK
MaxTimeLeftMs == 2200
MaxMoveK == 4
MaxIncK == 3

Max(a, b) == IF a >= b THEN a ELSE b
Min(a, b) == IF a <= b THEN a ELSE b

\* ------------------------------------------------------------------------
\* Rules engine (chess.js) at its interface
\* ------------------------------------------------------------------------
Squares == {"a1", "b1", "a2", "b2", "a3", "b3"}
NoSquare == "-"

RankOf(sq) == CASE sq \in {"a1", "b1"} -> 1
                [] sq \in {"a2", "b2"} -> 2
                [] OTHER -> 3
FileOf(sq) == IF sq \in {"a1", "a2", "a3"} THEN "a" ELSE "b"
SquareAt(f, r) == CHOOSE sq \in Squares : FileOf(sq) = f /\ RankOf(sq) = r
OtherFile(f) == IF f = "a" THEN "b" ELSE "a"
Opposite(color) == IF color = "w" THEN "b" ELSE "w"

NoPiece == [color |-> "-", type |-> "-"]
Pawn(c) == [color |-> c, type |-> "p"]
PromotionPieces == {"q", "n"}
NoPromotion == "-"

InitialBoard == [sq \in Squares |->
                   CASE sq = "a1" -> Pawn("w")
                     [] sq = "b3" -> Pawn("b")
                     [] OTHER -> NoPiece]
\* new Chess() / chess.reset(): the initial position with an empty history
NewChess == [board |-> InitialBoard, ply |-> 0]

\* chess.turn()
Turn(ch) == IF ch.ply % 2 = 0 THEN "w" ELSE "b"
\* chess.get(square)
Get(ch, sq) == IF sq \in Squares THEN ch.board[sq] ELSE NoPiece

\* the rank a pawn of the colour promotes on ('8' for White, '1' for Black)
PromotionRank(color) == IF color = "w" THEN 3 ELSE 1
ForwardRank(color, r) == IF color = "w" THEN r + 1 ELSE r - 1

\* chess.isCheckmate(): the side that just moved has promoted
IsCheckmate(ch) ==
    \E sq \in Squares : /\ ch.board[sq].color = Opposite(Turn(ch))
                        /\ ch.board[sq].type \notin {"p", "-"}

NoMove == [from |-> NoSquare, to |-> NoSquare, promotion |-> NoPromotion, color |-> "-"]

PawnTargets(ch, sq) ==
    LET c == ch.board[sq].color
        r == ForwardRank(c, RankOf(sq))
        ahead == SquareAt(FileOf(sq), r)
        diag == SquareAt(OtherFile(FileOf(sq)), r)
    IN  IF r < 1 \/ r > 3 THEN {}
        ELSE (IF ch.board[ahead] = NoPiece THEN {ahead} ELSE {})
             \cup (IF ch.board[diag].color = Opposite(c) THEN {diag} ELSE {})

\* chess.moves({ verbose: true }): a promoting pawn move is listed once per
\* promotion piece
Moves(ch) ==
    IF IsCheckmate(ch) THEN {}
    ELSE UNION { UNION { IF RankOf(to) = PromotionRank(Turn(ch))
                         THEN { [from |-> sq, to |-> to, promotion |-> p, color |-> Turn(ch)]
                                  : p \in PromotionPieces }
                         ELSE { [from |-> sq, to |-> to, promotion |-> NoPromotion,
                                 color |-> Turn(ch)] }
                         : to \in PawnTargets(ch, sq) }
                 : sq \in { q \in Squares : ch.board[q] = Pawn(Turn(ch)) } }

\* chess.isDraw(): stalemate
IsDraw(ch) == ~IsCheckmate(ch) /\ Moves(ch) = {}

\* chess.move({from, to, promotion}): the legal move the request names, or
\* NoMove (a falsy result) when it names none.  A promotion piece is compared
\* only against moves that promote.
FindMove(ch, from, to, promotion) ==
    LET ms == { m \in Moves(ch) : /\ m.from = from
                                  /\ m.to = to
                                  /\ (m.promotion = NoPromotion \/ m.promotion = promotion) }
    IN  IF ms = {} THEN NoMove ELSE CHOOSE m \in ms : TRUE

\* the position after a legal move
MakeMove(ch, m) ==
    [board |-> [sq \in Squares |->
                  IF sq = m.from THEN NoPiece
                  ELSE IF sq = m.to
                       THEN (IF m.promotion = NoPromotion THEN ch.board[m.from]
                             ELSE [color |-> m.color, type |-> m.promotion])
                       ELSE ch.board[sq]],
     ply |-> ch.ply + 1]

\* ------------------------------------------------------------------------
\* ChessAI.js: time-budget calculator (milliseconds)
\* ------------------------------------------------------------------------
Infinity == 1000000000
IsFinite(x) == x # Infinity

\* timeManager.emergencyThreshold
emergencyThreshold == 5000
\* the remaining time below which _handleTimeEmergency answers
EmergencyCutoff == 2000
EmergencyDepth == 6
EmergencyBuffer == 100
NoBudget == [time |-> 0, depth |-> 0, emergency |-> FALSE, isNull |-> TRUE]

\* _handleTimeEmergency(color, timeLeft): null (isNull) outside emergency
EmergencyBufferSmall(color, timeLeft) ==
    IF timeLeft < EmergencyCutoff
    THEN [time |-> Max(50, timeLeft - 50), depth |-> EmergencyDepth,
          emergency |-> TRUE, isNull |-> FALSE]
    ELSE NoBudget
HandleTimeEmergency(color, timeLeft) ==
    IF timeLeft < EmergencyCutoff
    THEN [time |-> Max(50, timeLeft - EmergencyBuffer), depth |-> EmergencyDepth,
          emergency |-> TRUE, isNull |-> FALSE]
    ELSE NoBudget

\* Math.round of the non-negative rational n / d
Round(n, d) == (2 * n + d) \div (2 * d)

\* the most the allocation with its share of the increment may be (line 202)
HalfSafetyLimit(timeLeft) == timeLeft - 50
SafetyLimit(timeLeft) == timeLeft - 100

\* The allocation of _calculateOptimalTime outside emergency mode, computed
\* exactly: the divisor is kept doubled (d2 = 2 * divisor, so that
\* movesRemaining / 2 stays an integer) and the allocation is carried as a
\* numerator over den = 5 * d2 (so that increment * 0.8 stays an integer).
Allocation(timeLeft, increment, moveNumber) ==
    LET isBullet == timeLeft < emergencyThreshold
        isBlitz == timeLeft < 60000
        movesRemaining == Max(10, 50 - moveNumber)
        d2 == IF isBullet THEN Max(2 * 5, movesRemaining)
              ELSE IF isBlitz THEN 2 * Max(8, movesRemaining)
              ELSE 2 * Max(12, movesRemaining)
        floorMs == IF isBullet THEN 100 ELSE IF isBlitz THEN 200 ELSE 1000
        den == 5 * d2
        n1 == Max(floorMs * den, 2 * timeLeft * 5)
        n2 == Min(n1 + 4 * increment * d2, SafetyLimit(timeLeft) * den)
        n3 == Max(50 * den, Min(n2, (timeLeft - 50) * den))
    IN  [num |-> n3, den |-> den]

\* _calculateOptimalTime(color, timeLeft, increment, moveNumber)
CalculateOptimalTime(color, timeLeft, increment, moveNumber) ==
    LET emergency == HandleTimeEmergency(color, timeLeft)
        a == Allocation(timeLeft, increment, moveNumber)
        depth == IF a.num < 500 * a.den THEN 8
                 ELSE IF a.num < 1500 * a.den THEN 12
                 ELSE IF a.num < 5000 * a.den THEN 15
                 ELSE 18
    IN  IF ~emergency.isNull THEN emergency
        ELSE IF ~IsFinite(timeLeft) \/ timeLeft <= 0
             THEN [time |-> 2000, depth |-> 15, emergency |-> FALSE, isNull |-> FALSE]
             ELSE [time |-> Round(a.num, a.den), depth |-> depth,
                   emergency |-> FALSE, isNull |-> FALSE]

\* ------------------------------------------------------------------------
\* main.js: AI personalities (blunderChance in percent; 0 stands for a field
\* the table leaves undefined)
\* ------------------------------------------------------------------------
AI_PERSONALITIES ==
    [k \in {"monkey", "geriatric-patient", "nut-twister", "wizard"} |->
       CASE k = "monkey" ->
              [id |-> k, type |-> "random", depth |-> 0, timeMs |-> 0,
               thinkMin |-> 250, thinkMax |-> 1600, blunderChance |-> 0]
         [] k = "geriatric-patient" ->
              [id |-> k, type |-> "engine", depth |-> 4, timeMs |-> 900,
               thinkMin |-> 800, thinkMax |-> 2400, blunderChance |-> 28]
         [] k = "nut-twister" ->
              [id |-> k, type |-> "engine", depth |-> 10, timeMs |-> 1500,
               thinkMin |-> 900, thinkMax |-> 2300, blunderChance |-> 6]
         [] OTHER ->
              [id |-> k, type |-> "engine", depth |-> 18, timeMs |-> 3200,
               thinkMin |-> 700, thinkMax |-> 1700, blunderChance |-> 0]]

\* AI_PERSONALITIES is an object literal: a key it does not hold itself is
\* looked up on Object.prototype, whose properties are functions and objects
\* (truthy, and no personality); any other key gives undefined
ObjectPrototypeKeys ==
    {"constructor", "toString", "valueOf", "hasOwnProperty", "isPrototypeOf", "__proto__"}
Undefined ==
    [id |-> "undefined", type |-> "undefined", depth |-> 0, timeMs |-> 0,
     thinkMin |-> 0, thinkMax |-> 0, blunderChance |-> 0]
InheritedProperty(key) ==
    [id |-> key, type |-> "Object.prototype", depth |-> 0, timeMs |-> 0,
     thinkMin |-> 0, thinkMax |-> 0, blunderChance |-> 0]
PropertyOf(key) ==
    IF key \in DOMAIN AI_PERSONALITIES THEN AI_PERSONALITIES[key]
    ELSE IF key \in ObjectPrototypeKeys THEN InheritedProperty(key)
    ELSE Undefined

\* getPersonality(key): AI_PERSONALITIES[key] || AI_PERSONALITIES.wizard
getPersonality(key) ==
    IF PropertyOf(key) # Undefined THEN PropertyOf(key) ELSE AI_PERSONALITIES["wizard"]

\* the options of the first search request and of the retry (makeAIMove)
SearchOpts(personality) == [maxDepth |-> personality.depth, time |-> personality.timeMs]
RetryOpts(personality) ==
    LET depth == IF personality.depth = 0 THEN 4 ELSE personality.depth
        timeMs == IF personality.timeMs = 0 THEN 1000 ELSE personality.timeMs
    IN  [maxDepth |-> Max(2, depth \div 2),
         \* Math.min(timeMs * 1.3, timeMs + 500), kept in tenths of a millisecond
         timeTenths |-> Min(timeMs * 13, (timeMs + 500) * 10)]

\* ------------------------------------------------------------------------
\* main.js: the session.  Handlers are operators from a world record w (the
\* rules engine's position, gameState, the promotion modal, the think cycles
\* in flight, the microtask queue and the pending makeAIMove timeouts) to
\* the world they leave.
\* ------------------------------------------------------------------------
CycleIds == 1..MaxCycles
NoPremove == [from |-> NoSquare, to |-> NoSquare]
NoPersonality == "-"
\* the moves the engine and makeAIMove exchange, in coordinate form:
\* from + to + (promotion || ''), as the sequence of its parts
Uci(m) == <<m.from, m.to>> \o (IF m.promotion = NoPromotion THEN <<>> ELSE <<m.promotion>>)
NullUci == <<>>

\* a ChessAI instance: readyPromise (pending, resolved, rejected),
\* _resolveReady (still set or nulled), the continuations waiting on
\* readyPromise in registration order, moveResolver (0: null, a cycle id: the
\* resolver of that cycle's request, -1: the resolver of a request already
\* completed) and the positions of the go commands the worker has yet to answer
NoEngine == [exists |-> FALSE, ready |-> "-", resolveReady |-> FALSE,
             waiters |-> <<>>, moveResolver |-> 0, go |-> <<>>]
\* new ChessAI(): the constructor sends uci and isready
NewEngine == [exists |-> TRUE, ready |-> "pending", resolveReady |-> TRUE,
              waiters |-> <<>>, moveResolver |-> 0, go |-> <<>>]

\* a think cycle: a makeAIMove invocation suspended at an await
\*   pc: "delay" (random kind, line 612), "init" (line 629), "fallback"
\*       (line 632), "search" (line 663)
\*   srch: state of searchPromise: "none", "ready" (getMove waits for
\*       readyPromise), "sent" (request sent, answer awaited), "done"
\*   opts: the options of the request last issued (time in tenths of a ms)
\*   inFlightAtReset: the cycle was suspended when resetGame last ran
NoOpts == [maxDepth |-> 0, timeTenths |-> 0]
IdleCycle == [pc |-> "idle", legalPos |-> NewChess, fen |-> NewChess, pers |-> NoPersonality,
              delayDone |-> FALSE, srch |-> "none", nreq |-> 0, aiResult |-> NullUci,
              opts |-> NoOpts, inFlightAtReset |-> FALSE]

Task(kind, c) == [kind |-> kind, c |-> c]

\* instances: `created` counts the ChessAI constructions since resetGame
\* last ran, `live` the instances whose worker has not been terminated
\* `gameState.ai.engine = new ChessAI()` when the constructor returns;
\* waiters: the continuation the caller attaches to readyPromise
NewChessAI(w, waiters) ==
    [w EXCEPT !.ai.engine = [NewEngine EXCEPT !.waiters = waiters],
              !.instances = [created |-> @.created + 1, live |-> @.live + 1]]

\* stopTimer(color)
stopTimer(w, color) ==
    IF color = "w" THEN [w EXCEPT !.timers.white = FALSE]
    ELSE [w EXCEPT !.timers.black = FALSE]

\* startTimer(color)
startTimer(w, color) ==
    IF color = "w" THEN [w EXCEPT !.timers.white = TRUE]
    ELSE [w EXCEPT !.timers.black = TRUE]

\* cancelPendingAI(): timeoutId is never set, so only the flag is cleared
cancelPendingAI(w) == [w EXCEPT !.ai.isThinking = FALSE]

IsUntimed(timeControl) == timeControl.base = 0 /\ timeControl.inc = 0

\* updatePlayerInfo()
updatePlayerInfo(w) ==
    IF ~IsUntimed(w.settings.timeControl) /\ ~w.isGameOver
    THEN stopTimer(startTimer(w, Turn(w.chess)), Opposite(Turn(w.chess)))
    ELSE w

\* uiElements.statusText.textContent, as far as the time-forfeit messages go:
\* every other text is OtherStatus
OtherStatus == "other"
TimeUpStatus(color) ==
    IF color = "w" THEN "Time's up! Black wins." ELSE "Time's up! White wins."

\* the game-over block of updateStatus (lines 811-815)
OnGameOverKeepClocks(w) == cancelPendingAI(w)
OnGameOver(w) == cancelPendingAI(stopTimer(stopTimer(w, "w"), "b"))

\* updateStatus() with isGameOver recomputed from the position
updateStatusRecomputed(w) ==
    IF IsCheckmate(w.chess) \/ IsDraw(w.chess)
    THEN OnGameOver([w EXCEPT !.isGameOver = TRUE, !.statusText = OtherStatus])
    ELSE [w EXCEPT !.isGameOver = FALSE, !.statusText = OtherStatus]

\* updateStatus()
updateStatus(w) ==
    IF w.isGameOver \/ IsCheckmate(w.chess) \/ IsDraw(w.chess)
    THEN OnGameOver([w EXCEPT !.isGameOver = TRUE, !.statusText = OtherStatus])
    ELSE [w EXCEPT !.statusText = OtherStatus]

\* renderBoard(): its only effect on the session is to drop a stale selection
renderBoard(w) ==
    IF w.fromSquare # NoSquare
       /\ ~(/\ Get(w.chess, w.fromSquare) # NoPiece
            /\ Get(w.chess, w.fromSquare).color = w.settings.playerColor
            /\ ~w.isGameOver)
    THEN [w EXCEPT !.fromSquare = NoSquare]
    ELSE w

AddTime(t, inc) == IF IsFinite(t) THEN t + inc ELSE t

\* the side processMove credits the increment to (line 568)
NotMover(move) == Opposite(move.color)
Mover(move) == move.color

\* processMove(move): chess.move has already been applied
processMove(w, move) ==
    updatePlayerInfo(
        IF w.timers.incrementSeconds > 0
        THEN (IF Mover(move) = "w"
              THEN [w EXCEPT !.lastMove = move,
                             !.timers.whiteTime = AddTime(@, w.timers.incrementSeconds)]
              ELSE [w EXCEPT !.lastMove = move,
                             !.timers.blackTime = AddTime(@, w.timers.incrementSeconds)])
        ELSE [w EXCEPT !.lastMove = move])

\* setTimeout(makeAIMove, ...)
NoSchedule(w) == w
ScheduleAIMove(w) == [w EXCEPT !.timeouts = @ + 1]

\* the guard of attemptPremoveExecution (line 518)
PremoveDue(w) ==
    /\ w.premove # NoPremove
    /\ ~w.isGameOver
    /\ Turn(w.chess) = w.settings.playerColor

\* the slot after an execution attempt (line 535)
PremoveKeptOnFailure(w, moveResult) == IF moveResult # NoMove THEN NoPremove ELSE w.premove
PremoveAfterAttempt(w, moveResult) == NoPremove

\* attemptPremoveExecution()
attemptPremoveExecution(w) ==
    IF ~PremoveDue(w) THEN w
    ELSE LET piece == Get(w.chess, w.premove.from)
             promotion == IF /\ piece # NoPiece
                             /\ piece.type = "p"
                             /\ RankOf(w.premove.to) = PromotionRank(piece.color)
                          THEN "q" ELSE NoPromotion
             moveResult == FindMove(w.chess, w.premove.from, w.premove.to, promotion)
             w1 == [w EXCEPT !.premove = PremoveAfterAttempt(w, moveResult)]
         IN  IF moveResult # NoMove
             THEN LET w2 == updateStatus(renderBoard(processMove(
                                [w1 EXCEPT !.chess = MakeMove(w.chess, moveResult)],
                                moveResult)))
                  IN  IF w2.settings.opponent # "human" /\ ~w2.isGameOver
                      THEN ScheduleAIMove(w2) ELSE w2
             \* chess.move raised an error: line 535 is skipped, the catch
             \* (551-553) logs it
             ELSE IF w.illegalMove = "throws" THEN w
             ELSE w1

\* the finally block of makeAIMove
makeAIMoveFinally(w) ==
    attemptPremoveExecution(updateStatus(renderBoard([w EXCEPT !.ai.isThinking = FALSE])))

\* ------------------------------------------------------------------------
\* main.js: makeAIMove
\* ------------------------------------------------------------------------
FreeCycles(w) == { c \in CycleIds : w.cycles[c].pc = "idle" }
Enqueue(w, task) == [w EXCEPT !.micro = Append(@, task)]

\* `await Promise.all([delayPromise, searchPromise])` (line 663): what lets
\* the cycle go on
SearchOrDelayComplete(cy) == cy.delayDone \/ cy.srch = "done"
BothComplete(cy) == cy.delayDone /\ cy.srch = "done"

\* searchPromise has settled: the cycle goes on once the delay is over too
SearchSettled(w, c) ==
    IF BothComplete(w.cycles[c]) THEN Enqueue(w, Task("all", c)) ELSE w

\* the innermost catch (lines 654-657): a random legal move as the result
RandomFallback(w, c, rnd) ==
    SearchSettled([w EXCEPT !.cycles[c].aiResult = Uci(rnd),
                            !.cycles[c].srch = "done"], c)

\* gameState.ai.engine.getMove(...) up to its `await this.readyPromise`:
\* "threw" when there is no engine to call (a TypeError).  nreq counts the
\* requests the cycle has attempted.
GetMoveCall(w, c) ==
    LET eng == w.ai.engine
        w0 == [w EXCEPT !.cycles[c].nreq = @ + 1]
        w1 == [w0 EXCEPT !.cycles[c].srch = "ready"]
    IN  IF ~eng.exists THEN [threw |-> TRUE, w |-> w0]
        ELSE [threw |-> FALSE,
              w |-> CASE eng.ready = "resolved" -> Enqueue(w1, Task("getMove", c))
                      [] eng.ready = "rejected" -> Enqueue(w1, Task("getMoveRej", c))
                      [] OTHER -> [w1 EXCEPT !.ai.engine.waiters =
                                                Append(@, Task("getMove", c))]]

\* the retry (line 652) and the random fallback when it fails at once
RetrySearch(w, c, rnd) ==
    LET r == GetMoveCall([w EXCEPT !.cycles[c].opts =
                             RetryOpts(AI_PERSONALITIES[w.cycles[c].pers])], c)
    IN  IF r.threw THEN RandomFallback(r.w, c, rnd) ELSE r.w

\* what the catch blocks of searchPromise do when a request fails (lines
\* 648-658): the first failure retries, the failure of the retry falls back
RetryAgain(w, c, rnd) == RetrySearch(w, c, rnd)
OnSearchFailure(w, c, rnd) ==
    IF w.cycles[c].nreq < 2 THEN RetrySearch(w, c, rnd) ELSE RandomFallback(w, c, rnd)

\* lines 641-660: fen, searchOpts and the first request of searchPromise
StartSearch(w, c, rnd) ==
    LET searchOpts == SearchOpts(AI_PERSONALITIES[w.cycles[c].pers])
        w1 == [w EXCEPT !.cycles[c].pc = "search", !.cycles[c].fen = w.chess,
                        !.cycles[c].opts = [maxDepth |-> searchOpts.maxDepth,
                                            timeTenths |-> 10 * searchOpts.time]]
        r == GetMoveCall(w1, c)
    IN  IF r.threw THEN OnSearchFailure(r.w, c, rnd) ELSE r.w

\* the guards of makeAIMove (lines 590-593)
Rejected(w) ==
    \/ w.isGameOver
    \/ w.ai.isThinking
    \/ w.settings.opponent = "human"
    \/ Turn(w.chess) = w.settings.playerColor

\* personality.type === 'random' (line 611)
NoRandomKind(personality) == FALSE
IsRandomKind(personality) == personality.type = "random"

\* makeAIMove() up to its first await; workerOk: whether new ChessAI()
\* returns (TRUE) or throws (FALSE) if this call constructs one
makeAIMove(w, workerOk) ==
    IF Rejected(w) THEN makeAIMoveFinally(w)
    ELSE LET w1 == updateStatus([w EXCEPT !.ai.isThinking = TRUE])
             personality == IF w1.ai.personality # NoPersonality
                            THEN AI_PERSONALITIES[w1.ai.personality]
                            ELSE getPersonality(w1.settings.opponent)
             c == CHOOSE i \in FreeCycles(w1) : \A j \in FreeCycles(w1) : i <= j
             cy == [IdleCycle EXCEPT !.legalPos = w1.chess, !.fen = w1.chess,
                                     !.pers = personality.id]
         IN  IF Moves(w1.chess) = {} THEN makeAIMoveFinally(w1)
             ELSE IF FreeCycles(w1) = {} THEN [w1 EXCEPT !.overflow = TRUE]
             ELSE IF IsRandomKind(personality)
                  THEN [w1 EXCEPT !.cycles[c] = [cy EXCEPT !.pc = "delay"]]
             ELSE IF ~w1.ai.engine.exists
                  THEN (IF workerOk
                        THEN NewChessAI([w1 EXCEPT !.cycles[c] = [cy EXCEPT !.pc = "init"]],
                                        <<Task("init", c)>>)
                        ELSE [w1 EXCEPT !.cycles[c] = [cy EXCEPT !.pc = "fallback"]])
             \* the engine exists, so the first request cannot throw here and
             \* no random fallback is drawn
             ELSE StartSearch([w1 EXCEPT !.cycles[c] = cy], c, NoMove)

\* the staleness guard of a resumed cycle (lines 613, 633, 668)
NoStalenessGuard(w) == FALSE
GameEndedMidThink(w) == w.isGameOver

\* chess.move(...) and processMove(...) of a resumed cycle, then its finally
ApplyAIMove(w, c, from, to, promotion) ==
    LET moveObj == FindMove(w.chess, from, to, promotion)
        w1 == [w EXCEPT !.cycles[c] = IdleCycle]
    IN  IF moveObj # NoMove
        THEN makeAIMoveFinally(processMove(
                 [w1 EXCEPT !.chess = MakeMove(w.chess, moveObj)], moveObj))
        ELSE makeAIMoveFinally(w1)

EndCycle(w, c) == makeAIMoveFinally([w EXCEPT !.cycles[c] = IdleCycle])

\* after `await delayPromise` of the random kind (lines 613-620) and of the
\* engine-init-failure fallback (lines 633-637); mv: the random pick
ResumeRandom(w, c, mv) ==
    IF GameEndedMidThink(w) THEN EndCycle(w, c)
    ELSE ApplyAIMove(w, c, mv.from, mv.to, mv.promotion)

\* the moves blunder substitution may pick (line 674)
AnyLegalMove(cy) == Moves(cy.legalPos)
AltMoves(cy) == { m \in Moves(cy.legalPos) : Uci(m) # cy.aiResult }

\* after `await Promise.all(...)` (lines 664-692); blunder: Math.random() <
\* blunderChance; pick: the alternative drawn when there is one
ChosenMoveUci(cy, blunder, pick) ==
    IF AI_PERSONALITIES[cy.pers].blunderChance > 0 /\ blunder /\ AltMoves(cy) # {}
    THEN Uci(pick) ELSE cy.aiResult

ResumeSearch(w, c, blunder, pick) ==
    LET cy == w.cycles[c]
        chosenMoveUci == ChosenMoveUci(cy, blunder, pick)
    IN  IF cy.aiResult = NullUci THEN EndCycle(w, c)
        ELSE IF GameEndedMidThink(w) THEN EndCycle(w, c)
        ELSE ApplyAIMove(w, c, chosenMoveUci[1], chosenMoveUci[2],
                         IF Len(chosenMoveUci) > 2 THEN chosenMoveUci[3] ELSE NoPromotion)

\* ------------------------------------------------------------------------
\* main.js: player interaction
\* ------------------------------------------------------------------------
\* handlePromotion(from, to): the modal is opened for the pair
handlePromotion(w, from, to) == [w EXCEPT !.modal = [from |-> from, to |-> to]]

\* `if (move)` on the result of chess.move (line 423)
AnyMoveAccepted(move) == TRUE
MoveAccepted(move) == move # NoMove

\* handlePlayerTurn(square)
handlePlayerTurn(w, square, workerOk) ==
    LET piece == Get(w.chess, square)
        own == piece # NoPiece /\ piece.color = Turn(w.chess)
        pieceToMove == Get(w.chess, w.fromSquare)
        move == FindMove(w.chess, w.fromSquare, square, NoPromotion)
        moved == processMove([w EXCEPT !.chess = MakeMove(w.chess, move)], move)
        cleared == [moved EXCEPT !.fromSquare = NoSquare]
        replied == IF cleared.settings.opponent # "human" /\ ~cleared.isGameOver
                   THEN makeAIMove(cleared, workerOk) ELSE cleared
    IN  IF w.fromSquare = NoSquare
        THEN (IF own THEN [w EXCEPT !.fromSquare = square] ELSE w)
        ELSE IF square = w.fromSquare THEN [w EXCEPT !.fromSquare = NoSquare]
        ELSE IF own THEN [w EXCEPT !.fromSquare = square]
        \* pieceToMove.color of an empty square throws; the handler's catch logs it
        ELSE IF pieceToMove = NoPiece THEN w
        ELSE IF pieceToMove.type = "p" /\ RankOf(square) = PromotionRank(pieceToMove.color)
             THEN handlePromotion(w, w.fromSquare, square)
        \* an error of chess.move lands in the handler's catch (438-440)
        ELSE IF ~MoveAccepted(move) /\ w.illegalMove = "throws" THEN w
        ELSE attemptPremoveExecution(updateStatus(renderBoard(
                 IF MoveAccepted(move) THEN replied ELSE w)))

\* handlePremove(square)
handlePremove(w, square) ==
    LET piece == Get(w.chess, square)
    IN  IF w.fromSquare # NoSquare /\ w.fromSquare # square
        THEN [w EXCEPT !.premove = [from |-> w.fromSquare, to |-> square],
                       !.fromSquare = NoSquare]
        ELSE IF piece # NoPiece /\ piece.color = w.settings.playerColor
             THEN [w EXCEPT !.fromSquare = square]
             ELSE [w EXCEPT !.fromSquare = NoSquare, !.premove = NoPremove]

\* isPlayerTurn (line 373)
NeverPlayerTurn(w) == FALSE
IsPlayerTurn(w) == Turn(w.chess) = w.settings.playerColor

\* handleSquareClick(square)
handleSquareClick(w, square, workerOk) ==
    IF ~w.isStarted \/ w.isGameOver THEN w
    ELSE IF w.settings.opponent = "human" THEN handlePlayerTurn(w, square, workerOk)
    ELSE IF IsPlayerTurn(w)
         THEN handlePlayerTurn(w, square, workerOk)
         ELSE handlePremove(w, square)

\* the click handler of a promotion option (lines 485-508)
promotionOptionClick(w, piece) ==
    LET move == FindMove(w.chess, w.modal.from, w.modal.to, piece)
        moved == processMove([w EXCEPT !.chess = MakeMove(w.chess, move)], move)
        w1 == IF move = NoMove THEN w
              ELSE IF moved.settings.opponent # "human" /\ ~moved.isGameOver
                   THEN ScheduleAIMove(moved) ELSE moved
    IN  attemptPremoveExecution(updateStatus(renderBoard(
            [w1 EXCEPT !.modal = NoPremove, !.fromSquare = NoSquare])))

\* the click handler of the resign button (lines 300-310)
resign(w) ==
    IF w.isGameOver THEN w
    ELSE stopTimer(stopTimer(cancelPendingAI([w EXCEPT !.isGameOver = TRUE,
                                                       !.statusText = OtherStatus]),
                             "w"), "b")

\* ------------------------------------------------------------------------
\* main.js: clocks
\* ------------------------------------------------------------------------
\* setupClocks(): the time control "<minutes>+<increment>" is carried as
\* base = minutes * 60 and inc, both in seconds
setupClocks(w) ==
    LET tc == w.settings.timeControl
    IN  IF tc.base > 0
        THEN [w EXCEPT !.timers.whiteTime = tc.base, !.timers.blackTime = tc.base,
                       !.timers.incrementSeconds = tc.inc]
        ELSE [w EXCEPT !.timers.whiteTime = Infinity, !.timers.blackTime = Infinity]

\* the interval callback without its stopTimer calls
tickKeepsTimers(w, color) ==
    LET t == IF color = "w" THEN w.timers.whiteTime ELSE w.timers.blackTime
        t1 == IF IsFinite(t) THEN t - 1 ELSE t
        w1 == IF color = "w" THEN [w EXCEPT !.timers.whiteTime = t1]
              ELSE [w EXCEPT !.timers.blackTime = t1]
    IN  IF t1 <= 0
        THEN [w1 EXCEPT !.isGameOver = TRUE, !.statusText = TimeUpStatus(color)]
        ELSE w1

\* the interval callback startTimer installs for the colour
tick(w, color) ==
    LET t == IF color = "w" THEN w.timers.whiteTime ELSE w.timers.blackTime
        t1 == IF IsFinite(t) THEN t - 1 ELSE t
        w1 == IF color = "w" THEN [w EXCEPT !.timers.whiteTime = t1]
              ELSE [w EXCEPT !.timers.blackTime = t1]
    IN  IF t1 <= 0
        THEN stopTimer(stopTimer([w1 EXCEPT !.isGameOver = TRUE,
                                            !.statusText = TimeUpStatus(color)], "w"), "b")
        ELSE w1

\* ------------------------------------------------------------------------
\* main.js: setupNewGame and resetGame
\* ------------------------------------------------------------------------
DefaultSeconds == 600

\* setupNewGame(): opponent, timeControl and playerColor are read from the
\* setup card; workerOk as for makeAIMove
setupNewGame(w, opponent, timeControl, playerColor, workerOk) ==
    LET w1 == [w EXCEPT !.settings = [opponent |-> opponent, timeControl |-> timeControl,
                                      playerColor |-> playerColor],
                        !.isStarted = TRUE]
        w2 == updateStatus(renderBoard(updatePlayerInfo(setupClocks(w1))))
        personality == getPersonality(opponent)
        w3 == [w2 EXCEPT !.ai.personality = personality.id]
        aiToMove == Turn(w3.chess) # playerColor
    IN  IF opponent = "human" THEN w2
        ELSE IF personality.type = "engine"
             THEN (IF ~w3.ai.engine.exists
                   THEN (IF workerOk
                         THEN NewChessAI(w3, <<Task("then", 0)>>)
                         ELSE [w3 EXCEPT !.ai.personality = getPersonality("monkey").id])
                   ELSE IF aiToMove THEN makeAIMove(w3, workerOk) ELSE w3)
             ELSE IF aiToMove THEN makeAIMove(w3, workerOk) ELSE w3

\* ChessAI.terminate() as resetGame calls it: the worker is gone, and a
\* readyPromise still pending is resolved, which makes the continuations
\* waiting on it runnable; a getMove that resumes on the terminated instance
\* sends nothing and is never answered
TerminatedWaiters(eng) ==
    IF eng.exists /\ eng.resolveReady /\ eng.ready = "pending"
    THEN [i \in 1..Len(eng.waiters) |->
            IF eng.waiters[i].kind = "getMove"
            THEN Task("getMoveDead", eng.waiters[i].c) ELSE eng.waiters[i]]
    ELSE <<>>

\* this.engine.terminate() of ChessAI.terminate(): the worker of the
\* instance is stopped
WorkerLeftRunning(w) == w
TerminateWorker(w) == [w EXCEPT !.instances.live = @ - 1]

\* engine.terminate() and `gameState.ai.engine = null` (lines 216-219)
KeepEngine(w) == w
ReleaseEngine(w) ==
    IF w.ai.engine.exists
    THEN [TerminateWorker(w) EXCEPT !.ai.engine = NoEngine, !.instances.created = 0]
    ELSE [w EXCEPT !.instances.created = 0]

\* resetGame()
resetGame(w) ==
    LET startSeconds == IF w.settings.timeControl.base > 0
                        THEN w.settings.timeControl.base ELSE DefaultSeconds
        w1 == cancelPendingAI([w EXCEPT !.chess = NewChess])
        \* requests the terminated worker will never answer
        w2 == ReleaseEngine(
                  [w1 EXCEPT !.cycles = [c \in CycleIds |->
                                           IF w1.cycles[c].srch = "sent" THEN IdleCycle
                                           ELSE w1.cycles[c]],
                             !.micro = @ \o TerminatedWaiters(w1.ai.engine)])
        w3 == [w2 EXCEPT !.isGameOver = FALSE, !.fromSquare = NoSquare,
                         !.lastMove = NoMove, !.premove = NoPremove,
                         !.isStarted = FALSE]
    IN  [stopTimer(stopTimer(w3, "w"), "b") EXCEPT
            !.timers.whiteTime = startSeconds, !.timers.blackTime = startSeconds,
            !.statusText = OtherStatus]

\* ------------------------------------------------------------------------
\* ChessAI.js: one instance and its callers.  The instance is a record
\*   worker: this.engine is set (the worker runs)
\*   readyPromise: "pending", "resolved" or "rejected"
\*   resolveReady: this._resolveReady is set
\*   deadline: the timeout of readyPromise is armed
\*   readyok: the constructor's isready has not been answered
\*   settled: the outcomes readyPromise took, in order
\*   moveResolver: the request whose resolver this.moveResolver holds (0: null)
\*   waiters: the requests suspended at `await this.readyPromise`
\*   runnable: the continuations of that await ready to run (microtasks)
\*   go: the go commands the worker has yet to answer, oldest first
\*   calls: the getMove / getQuickMove calls, by request id
\* ------------------------------------------------------------------------
RequestIds == 1..MaxRequests
NoClock == [whiteTime |-> 0, blackTime |-> 0, increment |-> 0, color |-> "-", moveNumber |-> 0]
\* a call: st is "idle" (not made), "ready" (awaits readyPromise), "sent" (its
\* promise is pending), "done" (its promise resolved) or "failed" (rejected);
\* answer: the request whose go command the bestmove that completed it
\* answered (0: none, -1: completed by onerror)
NoCall == [st |-> "idle", kind |-> "-", maxDepth |-> 0, time |-> 0, clock |-> NoClock,
           go |-> [depth |-> 0, movetime |-> 0], answer |-> 0]

NoChessAI == [worker |-> FALSE, readyPromise |-> "-", resolveReady |-> FALSE,
              deadline |-> FALSE, readyok |-> FALSE, settled |-> <<>>, moveResolver |-> 0,
              waiters |-> <<>>, runnable |-> <<>>, go |-> <<>>,
              calls |-> [r \in RequestIds |-> NoCall]]

\* resolve() / reject() of a promise: a settled promise keeps its outcome
SettleAgain(promise, outcome) == outcome
Settle(promise, outcome) == IF promise = "pending" THEN outcome ELSE promise

\* resolve() or reject() is called on readyPromise; when that settles it the
\* continuations waiting on it become runnable
SettleReady(ai, outcome) ==
    IF Settle(ai.readyPromise, outcome) = ai.readyPromise THEN ai
    ELSE [ai EXCEPT !.readyPromise = Settle(ai.readyPromise, outcome),
                    !.settled = Append(@, Settle(ai.readyPromise, outcome)),
                    !.waiters = <<>>,
                    !.runnable = @ \o ai.waiters]

\* this._resolveReady() (lines 39-42)
resolveReadyCall(ai) == SettleReady([ai EXCEPT !.deadline = FALSE], "resolved")

\* terminate() (lines 165-174); the commands the worker had not answered
\* are lost with it
terminate(ai) ==
    IF ~ai.worker THEN ai
    ELSE IF ai.resolveReady
         THEN resolveReadyCall([ai EXCEPT !.worker = FALSE, !.go = <<>>])
         ELSE [ai EXCEPT !.worker = FALSE, !.go = <<>>]

\* getMove(fen, options) and getQuickMove(fen, maxTime) up to
\* `await this.readyPromise`: a continuation is queued at once when the
\* promise is settled already
AwaitReady(ai, r, call) ==
    IF ai.readyPromise = "pending"
    THEN [ai EXCEPT !.calls[r] = [call EXCEPT !.st = "ready"], !.waiters = Append(@, r)]
    ELSE [ai EXCEPT !.calls[r] = [call EXCEPT !.st = "ready"], !.runnable = Append(@, r)]

\* searchParams of getMove (lines 120-139): clock data, when supplied,
\* replaces both fields by the calculator's allocation
SearchParams(call) ==
    IF call.clock # NoClock
    THEN LET optimal == CalculateOptimalTime(
                            call.clock.color,
                            IF call.clock.color = "w" THEN call.clock.whiteTime
                            ELSE call.clock.blackTime,
                            call.clock.increment,
                            IF call.clock.moveNumber = 0 THEN 1 ELSE call.clock.moveNumber)
         IN  [maxDepth |-> optimal.depth, time |-> optimal.time]
    ELSE [maxDepth |-> call.maxDepth, time |-> call.time]

\* the go command of getMove (lines 145-156) and of getQuickMove (242); 0
\* stands for a bound the command does not carry
GoCommand(call) ==
    LET searchParams == SearchParams(call)
    IN  IF call.kind = "getQuickMove" THEN [depth |-> 0, movetime |-> call.time]
        ELSE IF searchParams.maxDepth # 0 /\ searchParams.time = 0
             THEN [depth |-> searchParams.maxDepth, movetime |-> 0]
        ELSE IF searchParams.time # 0
             THEN [depth |-> 0, movetime |-> searchParams.time]
        ELSE [depth |-> 15, movetime |-> 0]

\* the call goes on after the await: it stores its resolver and sends the
\* position and go commands, or rejects with readyPromise; _sendCommand
\* sends nothing once the worker is terminated (line 104)
ResumeCall(ai, r) ==
    IF ai.readyPromise = "rejected"
    THEN [ai EXCEPT !.runnable = Tail(@), !.calls[r].st = "failed"]
    ELSE [ai EXCEPT !.runnable = Tail(@),
                    !.calls[r].st = "sent",
                    !.calls[r].go = GoCommand(ai.calls[r]),
                    !.moveResolver = r,
                    !.go = IF ai.worker THEN Append(@, r) ELSE @]

\* the resolver of request r is called: a promise already resolved stays as
\* it is
ResolveMove(ai, r, answer) ==
    IF ai.calls[r].st = "sent"
    THEN [ai EXCEPT !.calls[r].st = "done", !.calls[r].answer = answer]
    ELSE ai

\* _handleEngineMessage(event) for 'readyok' (lines 81-87) and for
\* 'bestmove ...' (lines 88-96), the worker's answer to its oldest go command
handleEngineMessage(ai, message) ==
    IF message = "readyok"
    THEN (IF ai.resolveReady
          THEN [resolveReadyCall(ai) EXCEPT !.resolveReady = FALSE, !.readyok = FALSE]
          ELSE [ai EXCEPT !.readyok = FALSE])
    ELSE IF ai.moveResolver # 0
         THEN [ResolveMove(ai, ai.moveResolver, Head(ai.go)) EXCEPT
                  !.go = Tail(@), !.moveResolver = 0]
         ELSE [ai EXCEPT !.go = Tail(@)]

\* engine.onerror (lines 46-51)
handleWorkerError(ai) ==
    IF ai.moveResolver # 0 THEN ResolveMove(ai, ai.moveResolver, -1) ELSE ai

\* ------------------------------------------------------------------------
\* utils/logger.js: the capped buffer.  A call is recorded by its level and
\* its content; the content stands for the arguments, here the number of
\* the call.
\* ------------------------------------------------------------------------
MAX_MESSAGES == 100
Levels == {"INFO", "WARN", "ERROR", "DEBUG", "TRACE"}

\* messages: the buffer; calls: every call made so far, oldest first;
\* pattern: the levels the caller uses, repeated
NoLogger == [messages |-> <<>>, calls |-> <<>>, pattern |-> <<>>]

\* `if (messages.length > MAX_MESSAGES) messages.shift()` (lines 26-28)
NeverShift(messages) == messages
ShiftWhenOver(messages) == IF Len(messages) > MAX_MESSAGES THEN Tail(messages) ELSE messages

\* the function makeLoggerMethod(label, ...) returns, called with args
LoggerMethod(lg, label, args) ==
    LET entry == [level |-> label, content |-> args]
    IN  [lg EXCEPT !.messages = ShiftWhenOver(Append(@, entry)),
                   !.calls = Append(@, entry)]

\* getMessages(): a copy of the buffer
getMessages(lg) == lg.messages

\* ------------------------------------------------------------------------
\* State
\* ------------------------------------------------------------------------
VARIABLES
    chess,           \* the position held by the rules engine
    gameState,       \* main.js gameState
    promotionModal,  \* the (from, to) the promotion options are bound to
    statusText,      \* the status line, as far as OtherStatus / TimeUpStatus tell
    cycles,          \* the makeAIMove invocations suspended at an await
    microtasks,      \* promise continuations ready to run
    timeouts,        \* pending setTimeout(makeAIMove, ...) callbacks
    resets,          \* how many times the new-game button was used
    calc,            \* a call of the time-budget calculator and its result
    lookups,         \* the getPersonality calls made so far, with their results
    instances,       \* the ChessAI instances constructed and not yet terminated
    chessAI,         \* a ChessAI instance driven on its own (FairChessAI)
    logger,          \* the logger's buffer and the calls made to it (SpecLogger)
    illegalMove      \* how chess.move answers an illegal request: "null" or "throws"

vars == <<chess, gameState, promotionModal, statusText, cycles, microtasks, timeouts, resets,
          calc, lookups, instances, chessAI, logger, illegalMove>>

World ==
    [chess |-> chess,
     fromSquare |-> gameState.fromSquare, premove |-> gameState.premove,
     settings |-> gameState.settings, isGameOver |-> gameState.isGameOver,
     isStarted |-> gameState.isStarted, lastMove |-> gameState.lastMove,
     timers |-> gameState.timers, ai |-> gameState.ai,
     modal |-> promotionModal, statusText |-> statusText, cycles |-> cycles,
     micro |-> microtasks,
     timeouts |-> timeouts, resets |-> resets, instances |-> instances,
     illegalMove |-> illegalMove, overflow |-> FALSE]

\* the step leaves world w; a step that would exceed a bound is not taken
Commit(w) ==
    /\ ~w.overflow
    /\ w.timeouts <= MaxTimeouts
    /\ chess' = w.chess
    /\ gameState' = [fromSquare |-> w.fromSquare, premove |-> w.premove,
                     settings |-> w.settings, isGameOver |-> w.isGameOver,
                     isStarted |-> w.isStarted, lastMove |-> w.lastMove,
                     timers |-> w.timers, ai |-> w.ai]
    /\ promotionModal' = w.modal
    /\ statusText' = w.statusText
    /\ cycles' = w.cycles
    /\ microtasks' = w.micro
    /\ timeouts' = w.timeouts
    /\ resets' = w.resets
    /\ instances' = w.instances
    /\ UNCHANGED <<calc, lookups, chessAI, logger, illegalMove>>

NoCalc == [color |-> "-", timeLeft |-> 0, increment |-> 0, moveNumber |-> 0,
           called |-> FALSE, result |-> NoBudget]

\* gameState as main.js declares it (lines 16-44)
InitialGameState ==
    [fromSquare |-> NoSquare, premove |-> NoPremove,
     settings |-> [opponent |-> "human",
                   timeControl |-> [base |-> DefaultSeconds, inc |-> 0],
                   playerColor |-> "w"],
     isGameOver |-> FALSE, isStarted |-> FALSE, lastMove |-> NoMove,
     timers |-> [white |-> FALSE, black |-> FALSE, whiteTime |-> DefaultSeconds,
                 blackTime |-> DefaultSeconds, incrementSeconds |-> 0],
     ai |-> [isThinking |-> FALSE, engine |-> NoEngine, personality |-> NoPersonality]]

InitSession ==
    /\ chess = NewChess
    /\ gameState = InitialGameState
    /\ promotionModal = NoPremove
    /\ statusText = OtherStatus
    /\ cycles = [c \in CycleIds |-> IdleCycle]
    /\ microtasks = <<>>
    /\ timeouts = 0
    /\ resets = 0
    /\ lookups = <<>>
    /\ instances = [created |-> 0, live |-> 0]
    /\ illegalMove = "null"

Init == InitSession /\ calc = NoCalc /\ chessAI = NoChessAI /\ logger = NoLogger

\* the values the setup card offers
Opponents == {"human", "monkey", "geriatric-patient"}
TimeControls == { [base |-> 0, inc |-> 0], [base |-> MaxBaseSeconds, inc |-> MaxIncrement] }
Colors == {"w", "b"}

\* whether a makeAIMove call in world w could construct a ChessAI
WorkerChoices == IF gameState.ai.engine.exists THEN {TRUE} ELSE BOOLEAN

Idle == microtasks = <<>>

\* ------------------------------------------------------------------------
\* Macrotasks: user input
\* ------------------------------------------------------------------------
\* the start button; the setup card is shown only while no game is started
StartGame ==
    /\ Idle
    /\ ~gameState.isStarted
    /\ \E opponent \in Opponents, timeControl \in TimeControls, playerColor \in Colors,
          workerOk \in BOOLEAN :
          Commit(setupNewGame(World, opponent, timeControl, playerColor, workerOk))

\* the new-game button, shown with the game controls of a started game
NewGame ==
    /\ Idle
    /\ gameState.isStarted
    /\ resets < MaxResets
    /\ LET w1 == resetGame(World)
       IN  Commit([w1 EXCEPT !.resets = @ + 1,
                             !.cycles = [c \in CycleIds |->
                                 IF w1.cycles[c].pc = "idle" THEN w1.cycles[c]
                                 ELSE [w1.cycles[c] EXCEPT !.inFlightAtReset = TRUE]]])

\* the resign button, shown with the game controls of a started game
Resign ==
    /\ Idle
    /\ gameState.isStarted
    /\ ~gameState.isGameOver
    /\ Commit(resign(World))

\* a click on a square of the board
Click ==
    /\ Idle
    /\ gameState.isStarted
    /\ ~gameState.isGameOver
    /\ \E square \in Squares, workerOk \in WorkerChoices :
          Commit(handleSquareClick(World, square, workerOk))

\* a click on one of the options of the promotion modal
PromotionChoice ==
    /\ Idle
    /\ promotionModal # NoPremove
    /\ \E piece \in PromotionPieces : Commit(promotionOptionClick(World, piece))

\* ------------------------------------------------------------------------
\* Macrotasks: timers
\* ------------------------------------------------------------------------
Tick ==
    /\ Idle
    /\ \E color \in Colors :
          /\ IF color = "w" THEN gameState.timers.white ELSE gameState.timers.black
          /\ Commit(tick(World, color))

\* the cosmetic delay of cycle c is over (delayPromise resolves)
DelayElapsed ==
    /\ Idle
    /\ \E c \in CycleIds :
          /\ cycles[c].pc # "idle"
          /\ ~cycles[c].delayDone
          /\ LET w1 == [World EXCEPT !.cycles[c].delayDone = TRUE]
                 cy == w1.cycles[c]
             IN  Commit(IF cy.pc \in {"delay", "fallback"} THEN Enqueue(w1, Task("resume", c))
                        ELSE IF cy.pc = "search" THEN SearchSettled(w1, c)
                        ELSE w1)

\* a setTimeout(makeAIMove, ...) fires
AITimeout ==
    /\ Idle
    /\ timeouts > 0
    /\ \E workerOk \in WorkerChoices :
          Commit(makeAIMove([World EXCEPT !.timeouts = @ - 1], workerOk))

\* ------------------------------------------------------------------------
\* Macrotasks: the engine (ChessAI.js)
\* ------------------------------------------------------------------------
\* 'readyok' arrives (_handleEngineMessage)
ReadyOk ==
    /\ Idle
    /\ gameState.ai.engine.exists
    /\ gameState.ai.engine.resolveReady
    /\ LET eng == gameState.ai.engine
       IN  Commit(IF eng.ready = "pending"
                  THEN [World EXCEPT !.ai.engine.ready = "resolved",
                                     !.ai.engine.resolveReady = FALSE,
                                     !.ai.engine.waiters = <<>>,
                                     !.micro = eng.waiters]
                  ELSE [World EXCEPT !.ai.engine.resolveReady = FALSE])

\* the readiness deadline passes (the timeout of readyPromise): a rejection
\* reaches the awaits; the then-callback of setupNewGame handles none
RejectedWaiters(waiters) ==
    LET live == SelectSeq(waiters, LAMBDA t : t.kind # "then")
    IN  [i \in 1..Len(live) |->
           Task(IF live[i].kind = "init" THEN "initRej" ELSE "getMoveRej", live[i].c)]

ReadyTimeout ==
    /\ Idle
    /\ gameState.ai.engine.exists
    /\ gameState.ai.engine.ready = "pending"
    /\ Commit([World EXCEPT !.ai.engine.ready = "rejected",
                            !.ai.engine.waiters = <<>>,
                            !.micro = RejectedWaiters(gameState.ai.engine.waiters)])

\* 'bestmove ...' arrives for the oldest unanswered go command
BestMove ==
    /\ Idle
    /\ gameState.ai.engine.exists
    /\ gameState.ai.engine.go # <<>>
    /\ LET eng == gameState.ai.engine
           r == eng.moveResolver
           w1 == [World EXCEPT !.ai.engine.go = Tail(@), !.ai.engine.moveResolver = 0]
       IN  \E mv \in Moves(Head(eng.go)) :
              Commit(IF r > 0
                     THEN SearchSettled([w1 EXCEPT !.cycles[r].aiResult = Uci(mv),
                                                   !.cycles[r].srch = "done"], r)
                     ELSE w1)

\* the worker reports an error (engine.onerror)
WorkerError ==
    /\ Idle
    /\ gameState.ai.engine.exists
    /\ gameState.ai.engine.moveResolver > 0
    /\ LET r == gameState.ai.engine.moveResolver
       IN  Commit(SearchSettled([World EXCEPT !.cycles[r].aiResult = NullUci,
                                              !.cycles[r].srch = "done",
                                              !.ai.engine.moveResolver = -1], r))

\* ------------------------------------------------------------------------
\* Microtasks
\* ------------------------------------------------------------------------
NextTask == Head(microtasks)
Popped == [World EXCEPT !.micro = Tail(@)]
Runs(kind) == microtasks # <<>> /\ NextTask.kind = kind

\* the callback setupNewGame attached to readyPromise (lines 184-189)
MicroThen ==
    /\ Runs("then")
    /\ \E workerOk \in WorkerChoices :
          Commit(IF Turn(chess) # gameState.settings.playerColor
                 THEN makeAIMove(Popped, workerOk) ELSE Popped)

\* makeAIMove goes on after `await gameState.ai.engine.readyPromise` (629)
MicroInit ==
    /\ Runs("init")
    /\ \E rnd \in Moves(cycles[NextTask.c].legalPos) :
          Commit(StartSearch(Popped, NextTask.c, rnd))

\* ... or lands in its catch (lines 630-632)
MicroInitRej ==
    /\ Runs("initRej")
    /\ LET c == NextTask.c
           w1 == [Popped EXCEPT !.cycles[c].pc = "fallback"]
       IN  Commit(IF w1.cycles[c].delayDone THEN Enqueue(w1, Task("resume", c)) ELSE w1)

\* getMove goes on after `await this.readyPromise` and sends the request
MicroGetMove ==
    /\ Runs("getMove")
    /\ LET c == NextTask.c
       IN  Commit([Popped EXCEPT !.cycles[c].srch = "sent",
                                 !.ai.engine.moveResolver = c,
                                 !.ai.engine.go = Append(@, cycles[c].fen)])

\* getMove goes on in a terminated instance: nothing is sent, the request
\* is never answered and the cycle never resumes
MicroGetMoveDead ==
    /\ Runs("getMoveDead")
    /\ Commit([Popped EXCEPT !.cycles[NextTask.c] = IdleCycle])

\* getMove rejects with readyPromise
MicroGetMoveRej ==
    /\ Runs("getMoveRej")
    /\ \E rnd \in Moves(cycles[NextTask.c].legalPos) :
          Commit(OnSearchFailure(Popped, NextTask.c, rnd))

\* makeAIMove goes on after Promise.all
MicroAll ==
    /\ Runs("all")
    /\ LET cy == cycles[NextTask.c]
       IN  \E blunder \in (IF AI_PERSONALITIES[cy.pers].blunderChance > 0
                           THEN BOOLEAN ELSE {FALSE}),
              pick \in (IF AltMoves(cy) = {} THEN {NoMove} ELSE AltMoves(cy)) :
              Commit(ResumeSearch(Popped, NextTask.c, blunder, pick))

\* makeAIMove goes on after `await delayPromise`
MicroResume ==
    /\ Runs("resume")
    /\ \E mv \in Moves(cycles[NextTask.c].legalPos) :
          Commit(ResumeRandom(Popped, NextTask.c, mv))

Next ==
    \/ StartGame
    \/ NewGame
    \/ Resign
    \/ Click
    \/ PromotionChoice
    \/ Tick
    \/ DelayElapsed
    \/ AITimeout
    \/ ReadyOk
    \/ ReadyTimeout
    \/ BestMove
    \/ WorkerError
    \/ MicroThen
    \/ MicroInit
    \/ MicroInitRej
    \/ MicroGetMove
    \/ MicroGetMoveDead
    \/ MicroGetMoveRej
    \/ MicroAll
    \/ MicroResume

Spec == Init /\ [][Next]_vars

\* ------------------------------------------------------------------------
\* The time-budget calculator on its own: a call with arguments drawn from
\* the sampled ranges, then its result
\* ------------------------------------------------------------------------
TimeSamples == (1..MaxTimeLeftMs) \cup {4999, 5000, 5001, 59999, 60000, 60001, 600000, Infinity}
MoveNumbers == { 1 + 13 * k : k \in 0..MaxMoveK }
Increments == { 1000 * k : k \in 0..MaxIncK }

InitTime ==
    /\ InitSession
    /\ calc \in [color : Colors, timeLeft : TimeSamples, increment : Increments,
                 moveNumber : MoveNumbers, called : {FALSE}, result : {NoBudget}]
    /\ chessAI = NoChessAI
    /\ logger = NoLogger

Calculate ==
    /\ calc.color # "-"
    /\ ~calc.called
    /\ calc' = [calc EXCEPT !.called = TRUE,
                            !.result = CalculateOptimalTime(calc.color, calc.timeLeft,
                                                            calc.increment, calc.moveNumber)]
    /\ UNCHANGED <<chess, gameState, promotionModal, statusText, cycles, microtasks, timeouts,
                   resets, lookups, instances, chessAI, logger, illegalMove>>

NextTime == Calculate

SpecTime == InitTime /\ [][NextTime]_vars

\* ------------------------------------------------------------------------
\* getPersonality called with known, unknown and inherited keys
\* ------------------------------------------------------------------------
PersonalityKeys ==
    DOMAIN AI_PERSONALITIES
    \cup {"human", "", "random", "stockfish", "Wizard", "undefined", "null", "0"}
    \cup ObjectPrototypeKeys

GetPersonalityCall ==
    /\ Len(lookups) < MaxLookups
    /\ \E key \in PersonalityKeys :
          lookups' = Append(lookups, [key |-> key, result |-> getPersonality(key)])
    /\ UNCHANGED <<chess, gameState, promotionModal, statusText, cycles, microtasks, timeouts,
                   resets, calc, instances, chessAI, logger, illegalMove>>

NextPersonality == GetPersonalityCall

SpecPersonality == Init /\ [][NextPersonality]_vars

\* ------------------------------------------------------------------------
\* Games on a control with an increment: against a human and against the
\* random kind, no reset
\* ------------------------------------------------------------------------
ClockOpponents == {"human", "monkey"}
ClockControls == { [base |-> MaxBaseSeconds, inc |-> k] : k \in 0..MaxClockIncrement }

StartClockGame ==
    /\ Idle
    /\ ~gameState.isStarted
    /\ \E opponent \in ClockOpponents, timeControl \in ClockControls, playerColor \in Colors :
          Commit(setupNewGame(World, opponent, timeControl, playerColor, TRUE))

NextClock ==
    \/ StartClockGame
    \/ Resign
    \/ Click
    \/ PromotionChoice
    \/ Tick
    \/ DelayElapsed
    \/ AITimeout
    \/ MicroResume

SpecClock == Init /\ [][NextClock]_vars

\* a pending setTimeout callback is run by the event loop sooner or later
FairClock == SpecClock /\ WF_vars(AITimeout)

\* ------------------------------------------------------------------------
\* The games of SpecClock on a rules engine that raises an error for an
\* illegal move
\* ------------------------------------------------------------------------
InitThrows ==
    /\ chess = NewChess
    /\ gameState = InitialGameState
    /\ promotionModal = NoPremove
    /\ statusText = OtherStatus
    /\ cycles = [c \in CycleIds |-> IdleCycle]
    /\ microtasks = <<>>
    /\ timeouts = 0
    /\ resets = 0
    /\ lookups = <<>>
    /\ instances = [created |-> 0, live |-> 0]
    /\ illegalMove = "throws"
    /\ calc = NoCalc
    /\ chessAI = NoChessAI
    /\ logger = NoLogger

SpecThrows == InitThrows /\ [][NextClock]_vars

\* ------------------------------------------------------------------------
\* Timed games against the engine personalities with the longest searches,
\* no reset
\* ------------------------------------------------------------------------
StartBudgetGame ==
    /\ Idle
    /\ ~gameState.isStarted
    /\ \E opponent \in {"nut-twister", "wizard"}, playerColor \in Colors :
          Commit(setupNewGame(World, opponent, [base |-> MaxBudgetSeconds, inc |-> 0],
                              playerColor, TRUE))

NextBudget ==
    \/ StartBudgetGame
    \/ Click
    \/ PromotionChoice
    \/ Tick
    \/ DelayElapsed
    \/ AITimeout
    \/ ReadyOk
    \/ ReadyTimeout
    \/ BestMove
    \/ WorkerError
    \/ MicroThen
    \/ MicroGetMove
    \/ MicroGetMoveRej
    \/ MicroAll

SpecBudget == Init /\ [][NextBudget]_vars

\* ------------------------------------------------------------------------
\* A ChessAI instance driven by its callers, its worker and its deadline
\* ------------------------------------------------------------------------
InitChessAI ==
    /\ InitSession
    /\ calc = NoCalc
    \* the constructor (lines 9-67): uci and isready are sent, the deadline
    \* of readyPromise is armed
    /\ chessAI = [NoChessAI EXCEPT !.worker = TRUE, !.readyPromise = "pending",
                                   !.resolveReady = TRUE, !.deadline = TRUE,
                                   !.readyok = TRUE]
    /\ logger = NoLogger

SessionUnchanged ==
    UNCHANGED <<chess, gameState, promotionModal, statusText, cycles, microtasks, timeouts,
                resets, calc, lookups, instances, logger, illegalMove>>

\* getMove is called: with or without a depth cap, a search time and clock
\* data (0: the field is left undefined); request ids are handed out in order
CallGetMove ==
    /\ \E r \in RequestIds, maxDepth \in {0, 4}, time \in {0, 900},
          clock \in {NoClock} \cup { [whiteTime |-> 1500, blackTime |-> 30000,
                                      increment |-> 1000, color |-> c,
                                      moveNumber |-> 0] : c \in Colors } :
          /\ chessAI.calls[r].st = "idle"
          /\ \A q \in RequestIds : q < r => chessAI.calls[q].st # "idle"
          /\ chessAI' = AwaitReady(chessAI, r,
                                   [NoCall EXCEPT !.kind = "getMove", !.maxDepth = maxDepth,
                                                  !.time = time, !.clock = clock])
    /\ SessionUnchanged

CallGetQuickMove ==
    /\ \E r \in RequestIds :
          /\ chessAI.calls[r].st = "idle"
          /\ \A q \in RequestIds : q < r => chessAI.calls[q].st # "idle"
          /\ chessAI' = AwaitReady(chessAI, r,
                                   [NoCall EXCEPT !.kind = "getQuickMove", !.time = 1000])
    /\ SessionUnchanged

CallTerminate ==
    /\ chessAI.worker
    /\ chessAI' = terminate(chessAI)
    /\ SessionUnchanged

\* a continuation of `await this.readyPromise` runs
ContinueCall ==
    /\ chessAI.runnable # <<>>
    /\ chessAI' = ResumeCall(chessAI, Head(chessAI.runnable))
    /\ SessionUnchanged

\* worker messages and timers are macrotasks: they run when no continuation
\* is waiting to run
WorkerReadyOk ==
    /\ chessAI.runnable = <<>>
    /\ chessAI.worker
    /\ chessAI.readyok
    /\ chessAI' = handleEngineMessage(chessAI, "readyok")
    /\ SessionUnchanged

\* the timeout callback of readyPromise (lines 35-37)
ReadyDeadline ==
    /\ chessAI.runnable = <<>>
    /\ chessAI.deadline
    /\ chessAI' = SettleReady([chessAI EXCEPT !.deadline = FALSE], "rejected")
    /\ SessionUnchanged

WorkerBestMove ==
    /\ chessAI.runnable = <<>>
    /\ chessAI.worker
    /\ chessAI.go # <<>>
    /\ chessAI' = handleEngineMessage(chessAI, "bestmove")
    /\ SessionUnchanged

WorkerFails ==
    /\ chessAI.runnable = <<>>
    /\ chessAI.worker
    /\ chessAI' = handleWorkerError(chessAI)
    /\ SessionUnchanged

NextChessAI ==
    \/ CallGetMove
    \/ CallGetQuickMove
    \/ CallTerminate
    \/ ContinueCall
    \/ WorkerReadyOk
    \/ ReadyDeadline
    \/ WorkerBestMove
    \/ WorkerFails

\* continuations run, and a running worker answers its go commands
FairChessAI ==
    /\ InitChessAI
    /\ [][NextChessAI]_vars
    /\ WF_vars(ContinueCall)
    /\ WF_vars(WorkerBestMove)

\* ------------------------------------------------------------------------
\* The logger called over and over, the levels following a pattern chosen
\* at the start
\* ------------------------------------------------------------------------
InitLogger ==
    /\ InitSession
    /\ calc = NoCalc
    /\ chessAI = NoChessAI
    /\ logger \in [messages : {<<>>}, calls : {<<>>}, pattern : [1..LogPeriod -> Levels]]

\* logger.info, .warn, .error, .debug or .trace is called: the method of the
\* level the pattern gives for this call
LogCall(label) ==
    /\ Len(logger.calls) < MaxLogCalls
    /\ logger.pattern[(Len(logger.calls) % LogPeriod) + 1] = label
    /\ logger' = LoggerMethod(logger, label, Len(logger.calls) + 1)
    /\ UNCHANGED <<chess, gameState, promotionModal, statusText, cycles, microtasks, timeouts,
                   resets, calc, lookups, instances, chessAI, illegalMove>>

NextLogger == \E label \in Levels : LogCall(label)

SpecLogger == InitLogger /\ [][NextLogger]_vars

\* ------------------------------------------------------------------------
\* Properties of the session (checked under Spec)
\* ------------------------------------------------------------------------
\* the step about to run is the resumption of cycle c after its last await
\* (`await delayPromise`, or `await Promise.all(...)`), up to and including
\* the finally block
Resumes(c) ==
    /\ microtasks # <<>>
    /\ NextTask.c = c
    /\ NextTask.kind \in {"resume", "all"}

InFlight == { c \in CycleIds : cycles[c].pc # "idle" }

\* C1: a think cycle that resumes from its delay or its search wait while
\* game-over is latched applies no move to the position, and neither a new
\* think cycle nor a makeAIMove timeout comes out of its resumption.
C1_StaleThinkAfterGameOver ==
    [][\A c \in CycleIds :
          (Resumes(c) /\ gameState.isGameOver)
             => /\ chess' = chess
                /\ timeouts' = timeouts
                /\ \A d \in CycleIds : cycles'[d].pc # "idle" => (d # c /\ cycles'[d] = cycles[d])
      ]_vars

\* a search answered with a move is about to be looked at by its cycle, and
\* the game has ended in the meantime
C1_Witness ==
    \E c \in CycleIds : /\ Resumes(c)
                        /\ NextTask.kind = "all"
                        /\ cycles[c].aiResult # NullUci
                        /\ gameState.isGameOver

\* C2: a think cycle that was in flight when resetGame ran never applies a
\* move afterwards: its resumption leaves the position as the finally block
\* alone leaves it.
C2_InFlightAtResetDiscarded ==
    [][\A c \in CycleIds :
          (Resumes(c) /\ cycles[c].inFlightAtReset) => chess' = EndCycle(Popped, c).chess
      ]_vars

\* C3: at any instant at most one think cycle is in flight.
C3_AtMostOneThinkCycle == Cardinality(InFlight) <= 1

\* C4: at most one of the two clock timers is running, and a running timer
\* is the one of the side to move.
C4_OneTimerOfSideToMove ==
    /\ ~(gameState.timers.white /\ gameState.timers.black)
    /\ gameState.timers.white => Turn(chess) = "w"
    /\ gameState.timers.black => Turn(chess) = "b"

\* the premove as chess.move would take it after the position became mid
PremoveIn(mid) == FindMove(mid, gameState.premove.from, gameState.premove.to, "q")
\* attemptPremoveExecution goes past its guard once the position became mid
AttemptedIn(mid) ==
    /\ ~IsCheckmate(mid)
    /\ ~IsDraw(mid)
    /\ Turn(mid) = gameState.settings.playerColor

C9_NoMoveBeforeDelayAndSearch ==
    [][\A c \in CycleIds :
          (Resumes(c) /\ chess' # chess)
             => /\ cycles[c].delayDone
                /\ cycles[c].pc = "search" => cycles[c].srch = "done"
      ]_vars

\* a search was answered before the cosmetic delay of its cycle was over
C9_Witness ==
    \E c \in CycleIds : /\ cycles[c].pc = "search"
                        /\ cycles[c].srch = "done"
                        /\ cycles[c].aiResult # NullUci
                        /\ ~cycles[c].delayDone
                        /\ ~gameState.isGameOver

C6_BudgetBelowRemaining ==
    (calc.called /\ calc.timeLeft > 0) => calc.result.time < calc.timeLeft

\* C7: the result carries the emergency flag exactly when the remaining time
\* is below timeManager.emergencyThreshold, and an emergency result carries
\* the fixed minimal depth.
C7_EmergencyIffBelowThreshold ==
    calc.called
       => /\ calc.result.emergency <=> calc.timeLeft < emergencyThreshold
          /\ calc.result.emergency => calc.result.depth = EmergencyDepth

\* C8: with 1800 ms remaining and increment 0 the result is an emergency
\* one, of depth 6 and of a search time of at most 1700 ms, whatever the
\* move number.
C8_Emergency1800 ==
    (calc.called /\ calc.timeLeft = 1800 /\ calc.increment = 0)
       => /\ calc.result.emergency
          /\ calc.result.depth = 6
          /\ calc.result.time <= 1700

\* the scenario has been computed, late in the game
C8_Witness ==
    /\ calc.called
    /\ calc.timeLeft = 1800
    /\ calc.increment = 0
    /\ calc.moveNumber > 40
    /\ calc.result.time = 1700

\* ------------------------------------------------------------------------
\* Search failures and engine readiness
\* ------------------------------------------------------------------------
\* a cycle of the running game goes on after its search wait, on the position
\* it was started from, with the automated side to move
SearchWaitOver(c) ==
    /\ Resumes(c)
    /\ NextTask.kind = "all"
    /\ gameState.isStarted
    /\ ~gameState.isGameOver
    /\ ~cycles[c].inFlightAtReset
    /\ chess = cycles[c].legalPos
    /\ Moves(chess) # {}

\* C11: a think cycle of a game that is not over, whose search request
\* failed (getMove rejected, or the worker reported an error and the pending
\* request completed without a move), ends with a legal move applied to the
\* position.
C11_FailedSearchStillMoves ==
    [][\A c \in CycleIds :
          (SearchWaitOver(c) /\ (cycles[c].nreq > 1 \/ cycles[c].aiResult = NullUci))
             => \E m \in Moves(chess) : chess' = MakeMove(chess, m)
      ]_vars

\* C12: once the readiness deadline of the search engine has passed, an
\* automated turn of the running game is not left unplayed: while it is the
\* automated side's turn and nothing is queued, a think cycle or a scheduled
\* makeAIMove is under way.
C12_TurnPlayedAfterReadyTimeout ==
    ( /\ gameState.ai.engine.exists
      /\ gameState.ai.engine.ready = "rejected"
      /\ gameState.isStarted
      /\ ~gameState.isGameOver
      /\ resets = 0
      /\ gameState.settings.opponent # "human"
      /\ Turn(chess) # gameState.settings.playerColor
      /\ Moves(chess) # {}
      /\ Idle )
        => (InFlight # {} \/ timeouts > 0)

\* C13: after the readiness deadline of the search engine has passed, the
\* active personality is of the random kind and no think cycle has a search
\* request under way.
C13_DemotedAfterReadyTimeout ==
    (gameState.ai.engine.exists /\ gameState.ai.engine.ready = "rejected")
        => /\ gameState.ai.personality # NoPersonality
           /\ IsRandomKind(AI_PERSONALITIES[gameState.ai.personality])
           /\ \A c \in CycleIds : cycles[c].srch \notin {"ready", "sent"}

\* ------------------------------------------------------------------------
\* Blunder substitution and the random kind
\* ------------------------------------------------------------------------
\* a cycle of a blundering personality is about to go on after its search
\* wait with a candidate move, game not over
BlunderPossible(c) ==
    /\ Resumes(c)
    /\ NextTask.kind = "all"
    /\ cycles[c].aiResult # NullUci
    /\ ~gameState.isGameOver
    /\ AI_PERSONALITIES[cycles[c].pers].blunderChance > 0

\* C14: when blunder substitution is triggered and a legal move other than
\* the candidate exists, the move chosen differs from the candidate in its
\* coordinates (from, to, promotion), and it is a legal move of the position
\* the cycle started from; when there is no alternative the candidate is kept.
C14_BlunderNeverRepeatsCandidate ==
    \A c \in CycleIds :
       BlunderPossible(c) =>
          LET cy == cycles[c]
              others == { m \in Moves(cy.legalPos) : Uci(m) # cy.aiResult }
          IN  /\ others # {} =>
                    \A pick \in AltMoves(cy) :
                       /\ ChosenMoveUci(cy, TRUE, pick) # cy.aiResult
                       /\ \E m \in Moves(cy.legalPos) : Uci(m) = ChosenMoveUci(cy, TRUE, pick)
              /\ others = {} => ChosenMoveUci(cy, TRUE, NoMove) = cy.aiResult

\* the candidate has an alternative (a promotion to another piece)
C14_Witness ==
    \E c \in CycleIds :
       /\ BlunderPossible(c)
       /\ AltMoves(cycles[c]) # {}
       /\ chess = cycles[c].legalPos

\* a think cycle of a random-kind personality
RandomCycle(c) ==
    /\ cycles[c].pc # "idle"
    /\ AI_PERSONALITIES[cycles[c].pers].type = "random"

\* C15: a think cycle of a random-kind personality creates no search engine
\* and issues no search request: it only waits for its cosmetic delay; and
\* the move it applies, after the delay, is a legal move of the position.
C15_RandomKindNeverSearches ==
    [][\A c \in CycleIds :
          /\ RandomCycle(c) =>
                /\ cycles[c].pc = "delay"
                /\ cycles[c].nreq = 0
                /\ cycles[c].srch = "none"
          \* the cycle starts: no engine is created, nothing is sent
          /\ (cycles[c].pc = "idle" /\ cycles'[c].pc # "idle"
                 /\ AI_PERSONALITIES[cycles'[c].pers].type = "random")
                => /\ gameState'.ai.engine = gameState.ai.engine
                   /\ cycles'[c].pc = "delay"
                   /\ cycles'[c].nreq = 0
          \* the cycle goes on: only after its delay, and with a legal move
          \* (which a queued premove of the player may follow at once)
          /\ (RandomCycle(c) /\ Resumes(c))
                => /\ cycles[c].delayDone
                   /\ gameState'.ai.engine = gameState.ai.engine
                   /\ \/ chess' = chess
                      \/ \E m \in Moves(chess) :
                            \/ chess' = MakeMove(chess, m)
                            \/ /\ gameState.premove # NoPremove
                               /\ \E p \in Moves(MakeMove(chess, m)) :
                                     chess' = MakeMove(MakeMove(chess, m), p)
      ]_vars

\* the delay of a random-kind cycle is over and its move is about to be
\* applied to the running game
C15_Witness ==
    \E c \in CycleIds :
       /\ RandomCycle(c)
       /\ Resumes(c)
       /\ gameState.isStarted
       /\ ~gameState.isGameOver
       /\ chess = cycles[c].legalPos

\* ------------------------------------------------------------------------
\* Game over and the clocks
\* ------------------------------------------------------------------------
\* C16: in every reachable state in which game-over is latched, by
\* checkmate, draw, resignation or time expiry, neither clock timer runs.
C16_NoTimerWhenGameOver ==
    gameState.isGameOver => (~gameState.timers.white /\ ~gameState.timers.black)

\* a timed game ended by the position itself, with time left on both clocks
C16_Witness ==
    /\ gameState.isGameOver
    /\ gameState.isStarted
    /\ ~IsUntimed(gameState.settings.timeControl)
    /\ IsCheckmate(chess) \/ IsDraw(chess)
    /\ gameState.timers.whiteTime > 0
    /\ gameState.timers.blackTime > 0

\* C17: once game-over is latched, no move from any source is applied to the
\* position until the session is reset.
C17_NoMoveAfterGameOver ==
    [][gameState.isGameOver => (chess' = chess \/ resets' # resets)]_vars

\* C18: game-over is terminal: once latched the flag stays set under every
\* event (ticks, clicks, late AI results, status refreshes, engine
\* messages); only resetGame clears it.
C18_GameOverTerminal ==
    [][gameState.isGameOver => (gameState'.isGameOver \/ resets' = resets + 1)]_vars

\* game-over was latched by other means than the position (resignation or
\* time expiry) while a think cycle is still in flight: its late result will
\* refresh the status on a position that is neither mate nor draw
C18_Witness ==
    /\ gameState.isGameOver
    /\ ~IsCheckmate(chess)
    /\ ~IsDraw(chess)
    /\ \E c \in CycleIds : Resumes(c)

\* the interval callback of the colour's clock takes its last second
LastTick(color) ==
    IF color = "w"
    THEN /\ gameState.timers.white
         /\ gameState.timers.whiteTime = 1
         /\ gameState'.timers.whiteTime = 0
    ELSE /\ gameState.timers.black
         /\ gameState.timers.blackTime = 1
         /\ gameState'.timers.blackTime = 0

\* C19: when a tick brings the remaining time of the running clock to zero,
\* game-over is latched as a time forfeit won by the opposite side, and both
\* timers are stopped, so that no further tick can occur.
C19_TimeForfeit ==
    [][\A color \in Colors :
          LastTick(color)
             => /\ gameState'.isGameOver
                /\ statusText' = (IF color = "w" THEN "Time's up! Black wins."
                                  ELSE "Time's up! White wins.")
                /\ ~gameState'.timers.white
                /\ ~gameState'.timers.black
      ]_vars

\* the running game was lost on time
C19_Witness ==
    /\ gameState.isGameOver
    /\ gameState.isStarted
    /\ statusText # OtherStatus
    /\ gameState.timers.whiteTime = 0 \/ gameState.timers.blackTime = 0

\* C20: in a started session on an untimed control both remaining times are
\* unbounded, no clock timer runs (so none ticks), and the status never
\* shows a time forfeit.
C20_UntimedNeverTicks ==
    (gameState.isStarted /\ IsUntimed(gameState.settings.timeControl))
        => /\ gameState.timers.whiteTime = Infinity
           /\ gameState.timers.blackTime = Infinity
           /\ ~gameState.timers.white
           /\ ~gameState.timers.black
           /\ statusText = OtherStatus

\* ------------------------------------------------------------------------
\* Increment, premoves and clicks
\* ------------------------------------------------------------------------
\* how many moves of the colour the step applies (an opponent's move may be
\* followed by the player's queued premove in the same step)
MovesApplied(color) ==
    LET n == chess'.ply - chess.ply
    IN  IF n = 2 THEN 1
        ELSE IF n = 1 /\ Turn(chess) = color THEN 1
        ELSE 0

\* C21: a step that applies a move adds exactly the increment to the mover's
\* remaining time and leaves the other side's remaining time as it was; with
\* increment 0 both remaining times are unchanged.
C21_IncrementToMover ==
    [][(chess'.ply > chess.ply)
          => LET inc == gameState.timers.incrementSeconds
             IN  /\ gameState'.timers.whiteTime =
                       gameState.timers.whiteTime + inc * MovesApplied("w")
                 /\ gameState'.timers.blackTime =
                       gameState.timers.blackTime + inc * MovesApplied("b")
      ]_vars

\* White has moved on a control with an increment and holds more than the
\* base time, Black's time is untouched
C21_Witness ==
    /\ gameState.timers.incrementSeconds > 0
    /\ chess.ply = 1
    /\ gameState.timers.whiteTime = MaxBaseSeconds + MaxClockIncrement
    /\ gameState.timers.blackTime = MaxBaseSeconds

PremoveClicks ==
    /\ Idle
    /\ gameState.isStarted
    /\ ~gameState.isGameOver
    /\ gameState.settings.opponent # "human"
    /\ Turn(chess) # gameState.settings.playerColor

OwnPieceAt(sq) ==
    /\ Get(chess, sq) # NoPiece
    /\ Get(chess, sq).color = gameState.settings.playerColor

\* C23: while the opponent is to move, a click with no source selected on an
\* empty or opponent-occupied square selects nothing and commits nothing; a
\* click on the selected source clears the selection and commits nothing; a
\* premove is committed only by a click on a square other than the selected
\* source, which holds a piece of the owner.
C23_PremoveClickOutcomes ==
    PremoveClicks =>
       /\ gameState.fromSquare = NoSquare =>
             \A sq \in Squares :
                ~OwnPieceAt(sq) =>
                   /\ handlePremove(World, sq).fromSquare = NoSquare
                   /\ handlePremove(World, sq).premove = NoPremove
       /\ gameState.fromSquare # NoSquare =>
             /\ handlePremove(World, gameState.fromSquare).fromSquare = NoSquare
             /\ handlePremove(World, gameState.fromSquare).premove = gameState.premove
       /\ \A sq \in Squares :
             handlePremove(World, sq).premove \notin {NoPremove, gameState.premove} =>
                /\ gameState.fromSquare # NoSquare
                /\ sq # gameState.fromSquare
                /\ OwnPieceAt(gameState.fromSquare)
                /\ handlePremove(World, sq).premove = [from |-> gameState.fromSquare, to |-> sq]

\* the step executes the queued premove on top of the opponent's move and
\* the game goes on
PremoveExecuted ==
    /\ gameState.premove # NoPremove
    /\ gameState.settings.opponent # "human"
    /\ chess'.ply = chess.ply + 2
    /\ ~gameState'.isGameOver

\* C24: when a premove executes and the game is not over, the automated
\* reply is scheduled in the same step, and a scheduled reply of a game that
\* goes on leads to a think cycle of the opponent.
C24_ReplyAfterPremove ==
    /\ [][PremoveExecuted => timeouts' = timeouts + 1]_vars
    /\ (timeouts > 0 /\ ~gameState.isGameOver)
          ~> (InFlight # {} \/ gameState.isGameOver)

\* the premove was executed, the reply is scheduled, the opponent is to move
C24_Witness ==
    /\ timeouts > 0
    /\ ~gameState.isGameOver
    /\ gameState.premove = NoPremove
    /\ gameState.lastMove.color = gameState.settings.playerColor
    /\ Turn(chess) # gameState.settings.playerColor
    /\ InFlight = {}

\* ------------------------------------------------------------------------
\* Staleness, rejected moves and reset
\* ------------------------------------------------------------------------
\* C25: a think cycle that resumes while it is the human player's turn
\* (the side to move changed underneath it) applies no move.
C25_ResumedCycleChecksTurn ==
    [][\A c \in CycleIds :
          (/\ Resumes(c)
           /\ gameState.settings.opponent # "human"
           /\ Turn(chess) = gameState.settings.playerColor)
             => chess' = chess
      ]_vars

\* a click on sq, with a source selected on the mover's own turn, reaches
\* chess.move (line 421) and the rules engine rejects the move
RejectedClick(sq) ==
    /\ Idle
    /\ gameState.isStarted
    /\ ~gameState.isGameOver
    /\ gameState.settings.opponent = "human" \/ Turn(chess) = gameState.settings.playerColor
    /\ gameState.fromSquare # NoSquare
    /\ sq # gameState.fromSquare
    /\ ~(Get(chess, sq) # NoPiece /\ Get(chess, sq).color = Turn(chess))
    /\ Get(chess, gameState.fromSquare) # NoPiece
    /\ ~(/\ Get(chess, gameState.fromSquare).type = "p"
         /\ RankOf(sq) = PromotionRank(Get(chess, gameState.fromSquare).color))
    /\ FindMove(chess, gameState.fromSquare, sq, NoPromotion) = NoMove

\* what the claim lists of a world: position (and with it the side to move
\* and the move history), remaining times and running clock, last move,
\* game-over flag, think cycles and scheduled makeAIMove calls
SessionCore(w) ==
    <<w.chess, w.timers, w.lastMove, w.isGameOver, w.cycles, w.timeouts, w.micro,
      w.ai, w.premove>>

\* C26: a player move the rules engine rejects changes no session state:
\* position, side to move, remaining times, running clock, last move, move
\* history and game-over flag stay as they were and no think cycle starts.
C26_RejectedMoveNoChange ==
    \A sq \in Squares :
       RejectedClick(sq) =>
          \A workerOk \in BOOLEAN :
             SessionCore(handleSquareClick(World, sq, workerOk)) = SessionCore(World)

\* a pawn is selected and some square is not a legal target for it
C26_Witness ==
    \E sq \in Squares :
       /\ RejectedClick(sq)
       /\ gameState.settings.opponent # "human"
       /\ chess.ply > 0

\* C27: resetGame leaves the session empty: the initial position, no premove
\* and no selection pending, no last move, game-over and started flags
\* false, neither clock timer running, no engine handle.
C27_ResetLeavesSessionEmpty ==
    [][resets' = resets + 1
          => /\ chess' = NewChess
             /\ gameState'.premove = NoPremove
             /\ gameState'.fromSquare = NoSquare
             /\ gameState'.lastMove = NoMove
             /\ ~gameState'.isGameOver
             /\ ~gameState'.isStarted
             /\ ~gameState'.timers.white
             /\ ~gameState'.timers.black
             /\ gameState'.ai.engine = NoEngine
      ]_vars

\* the new-game button is about to be used on a game in progress: moves
\* played, a clock running, the engine alive
C27_Witness ==
    /\ Idle
    /\ gameState.isStarted
    /\ resets < MaxResets
    /\ chess.ply > 0
    /\ gameState.lastMove # NoMove
    /\ gameState.timers.white \/ gameState.timers.black
    /\ gameState.ai.engine.exists

\* C28: after resetGame and until a new game is started no clock timer is
\* running, whatever callbacks fire in between.
C28_NoTimerBetweenGames ==
    (resets > 0 /\ ~gameState.isStarted)
        => (~gameState.timers.white /\ ~gameState.timers.black)

\* ------------------------------------------------------------------------
\* Personalities
\* ------------------------------------------------------------------------
\* C29: getPersonality maps every key of AI_PERSONALITIES to the personality
\* stored under it and every other key to the wizard personality.
C29_GetPersonalityTotal ==
    \A i \in 1..Len(lookups) :
       lookups[i].result = IF lookups[i].key \in DOMAIN AI_PERSONALITIES
                           THEN AI_PERSONALITIES[lookups[i].key]
                           ELSE AI_PERSONALITIES["wizard"]

\* C30: in every state of a started session the active personality is
\* absent if and only if the selected opponent is human.
C30_PersonalityNullIffHuman ==
    gameState.isStarted
        => (gameState.ai.personality = NoPersonality
               <=> gameState.settings.opponent = "human")

\* ------------------------------------------------------------------------
\* Properties of the engine wrapper and of the logger
\* ------------------------------------------------------------------------
\* C31: the ChessAI instance is reused across think cycles.  Between one
\* resetGame and the next (hence between a session start and the next
\* reset) at most one instance is constructed; at any time at most one
\* instance has a worker that was not terminated, and it is the one
\* gameState.ai.engine holds; resetGame terminates the instance it holds and
\* drops the handle.
C31_OneEngineInstance ==
    /\ [](/\ instances.created <= 1
          /\ instances.live <= 1
          /\ instances.live = (IF gameState.ai.engine.exists THEN 1 ELSE 0))
    /\ [][resets' # resets =>
             /\ ~gameState.ai.engine'.exists
             /\ instances'.live = 0]_vars

\* a second session has its own instance, the first one having been
\* terminated by the reset, and a think cycle of that session uses it
C31_Witness ==
    /\ resets = 1
    /\ gameState.isStarted
    /\ instances = [created |-> 1, live |-> 1]
    /\ gameState.ai.engine.ready = "resolved"
    /\ \E c \in CycleIds : cycles[c].srch = "sent" /\ ~cycles[c].inFlightAtReset

\* C32: terminate() called while readyPromise is pending resolves it, clears
\* the readiness deadline and makes every continuation waiting on the
\* promise runnable; a resolved readyPromise never turns into a failure, the
\* promise settles at most once in the life of the instance, and every call
\* suspended at the readiness wait of a terminated instance goes on.
C32_TerminateUnblocksReady ==
    /\ [][(chessAI.worker /\ ~chessAI'.worker /\ chessAI.readyPromise = "pending") =>
             /\ chessAI'.readyPromise = "resolved"
             /\ ~chessAI'.deadline
             /\ chessAI'.waiters = <<>>
             /\ chessAI'.runnable = chessAI.runnable \o chessAI.waiters]_vars
    /\ [][chessAI.readyPromise = "resolved" => chessAI'.readyPromise = "resolved"]_vars
    /\ [](Len(chessAI.settled) <= 1)
    /\ \A r \in RequestIds :
          (~chessAI.worker /\ chessAI.calls[r].st = "ready") ~> (chessAI.calls[r].st # "ready")

\* the instance was terminated before readyok or the deadline, with two
\* calls waiting: both are runnable and the promise is resolved
C32_Witness ==
    /\ ~chessAI.worker
    /\ chessAI.readyok
    /\ chessAI.readyPromise = "resolved"
    /\ chessAI.waiters = <<>>
    /\ chessAI.runnable = <<1, 2>>

\* C33: after n logger calls the buffer getMessages() returns holds exactly
\* the most recent min(n, 100) calls, in call order (the oldest calls are the
\* ones evicted).
C33_BufferHoldsLastCalls ==
    LET n == Len(logger.calls)
        k == Min(n, 100)
    IN  getMessages(logger) = SubSeq(logger.calls, n - k + 1, n)

\* more than 100 calls were made: the first ones are gone from the buffer
C33_Witness ==
    /\ Len(logger.calls) = 103
    /\ Len(getMessages(logger)) = 100
    /\ Head(getMessages(logger)).content = 4

\* C34: for a finite remaining time outside emergency mode (2000 ms or
\* more), whatever the increment and the move number, the search time
\* returned is at least 50 ms and at most the remaining time less the
\* 100 ms safety buffer.
C34_TimeWithinSafetyBuffer ==
    (calc.called /\ IsFinite(calc.timeLeft) /\ calc.timeLeft >= 2000)
       => /\ calc.result.time >= 50
          /\ calc.result.time <= calc.timeLeft - 100

\* the increment's share lifts the allocation to the limit: the result is
\* exactly the remaining time less the buffer
C34_Witness ==
    /\ calc.called
    /\ calc.timeLeft = 2100
    /\ calc.increment = 3000
    /\ ~calc.result.emergency
    /\ calc.result.time = 2000

\* C35: a getMove call that carries both a time budget and a depth cap sends
\* a go command bounded by both, the search time and the depth.
C35_GoBoundedByTimeAndDepth ==
    \A r \in RequestIds :
       LET call == chessAI.calls[r]
       IN  (/\ call.kind = "getMove"
            /\ call.st \in {"sent", "done"}
            /\ SearchParams(call).time # 0
            /\ SearchParams(call).maxDepth # 0)
              => /\ call.go.movetime = SearchParams(call).time
                 /\ call.go.depth = SearchParams(call).maxDepth

\* the remaining clock time, in seconds, of the automated side
AutomatedSideTime(gs) ==
    IF gs.settings.playerColor = "w" THEN gs.timers.blackTime ELSE gs.timers.whiteTime

\* C36: in a timed session the search time of every request a think cycle
\* issues is at most the automated side's remaining clock time at that
\* moment (timeTenths is in tenths of a millisecond, the clock in seconds).
C36_RequestWithinRemainingTime ==
    [][\A c \in CycleIds :
          (/\ cycles'[c].nreq > cycles[c].nreq
           /\ IsFinite(AutomatedSideTime(gameState')))
             => cycles'[c].opts.timeTenths <= 10000 * AutomatedSideTime(gameState')]_vars

\* C37: a makeAIMove call rejected by its entry guards changes nothing: when
\* a pending setTimeout(makeAIMove) callback fires in a state the guards
\* reject, the session is left as it was, the thinking flag of the cycle in
\* flight included.
C37_RejectedCallIsNoOp ==
    (Idle /\ timeouts > 0 /\ Rejected(World))
       => \A workerOk \in BOOLEAN : makeAIMove(World, workerOk) = World

\* C38: while the session is not started (after resetGame and before the
\* next setupNewGame) no think cycle is started and the position does not
\* change, whatever callback runs.
C38_NothingRunsBetweenGames ==
    [][(~gameState.isStarted /\ ~gameState'.isStarted)
          => /\ chess' = chess
             /\ \A c \in CycleIds : cycles[c].pc = "idle" => cycles'[c].pc = "idle"]_vars

\* C39: a bestmove message completes the request whose go command it
\* answers, and a request whose go command a running worker has answered is
\* completed - also when two requests are outstanding at once.
C39_BestMoveCompletesItsRequest ==
    \A r \in RequestIds :
       LET call == chessAI.calls[r]
           unanswered == { chessAI.go[i] : i \in 1..Len(chessAI.go) }
       IN  /\ (call.st = "done" /\ call.answer > 0) => call.answer = r
           /\ (call.st = "sent" /\ chessAI.worker) => r \in unanswered

\* C40: on a rules engine that raises an error for an illegal move, when a
\* think cycle applies the opponent's move while a premove is queued, the
\* game goes on with the player to move and the premove is not legal, the
\* position stays as the opponent's move left it and the slot is empty
\* afterwards.
C40_IllegalPremoveCleared ==
    [][\A c \in CycleIds :
          (/\ illegalMove = "throws"
           /\ Resumes(c)
           /\ gameState.premove # NoPremove
           /\ chess' # chess)
             => \E m \in Moves(chess) :
                   LET mid == MakeMove(chess, m)
                   IN  (AttemptedIn(mid) /\ PremoveIn(mid) = NoMove)
                          => /\ chess' = mid
                             /\ gameState'.premove = NoPremove
      ]_vars

====
